---- MODULE Spec2Model ----
(***************************************************************************)
(* The payment-gated tool invocation pipeline of the Cronos MCP server:    *)
(* the CallTool dispatcher (src/index.ts), PaymentService and X402Service. *)
(* Every invocation is an async function; an action of this module is the  *)
(* synchronous run of one invocation from one await to the next.           *)
(* Amounts on chain are in USDCe base units (6 decimals); catalog prices   *)
(* are in hundredths of a token (0.5 is 50).                               *)
(***************************************************************************)
EXTENDS Integers, Sequences, FiniteSets, TLC

\* ------------------------------------------------------------------ bounds
MaxInv == 2
MaxClock == 1
MaxInitBalanceSteps == 3

\* ------------------------------------------------------- program constants
USDCE_DECIMALS == 6
ValidityWindow == 3600

Pow10(n) == IF n = 6 THEN 1000000 ELSE IF n = 3 THEN 1000 ELSE 1

\* optional values: <<>> is undefined/null, <<v>> is v
None == <<>>
Some(v) == <<v>>
IsSome(o) == Len(o) = 1
Get(o) == o[1]
Range(s) == {s[k] : k \in 1..Len(s)}

\* ----------------------------------------------------------- configuration
SignerAddress == "0xSigner"
OtherAddress == "0xUser"
ZeroAddress == "0x0000000000000000000000000000000000000000"
recipientAddress == "0xPayee"
DEFAULT_USER_ADDRESS == None
Accounts == {SignerAddress, OtherAddress, recipientAddress}

\* ------------------------------------------------------------ tool catalog
Tool(tier, cents) == [tier |-> tier, priceInCRO |-> cents]

TOOLS ==
  [id \in {"get_cronos_balance", "get_gas_price", "get_token_price",
           "check_transaction_status", "check_x402_status",
           "analyze_wallet_portfolio", "get_historical_price_data",
           "find_arbitrage_opportunities", "optimize_swap_route",
           "execute_token_swap", "auto_compound_rewards"} |->
     CASE id = "analyze_wallet_portfolio" -> Tool("premium", 50)
       [] id = "get_historical_price_data" -> Tool("premium", 25)
       [] id = "find_arbitrage_opportunities" -> Tool("premium", 100)
       [] id = "optimize_swap_route" -> Tool("premium", 40)
       [] id = "execute_token_swap" -> Tool("ultra", 500)
       [] id = "auto_compound_rewards" -> Tool("ultra", 750)
       [] OTHER -> Tool("free", 0)]

\* variant: the catalog also holds the documented vvs_swap entry
FindTool_Documented(name) ==
  IF name \in DOMAIN TOOLS THEN Some(TOOLS[name])
  ELSE IF name = "vvs_swap" THEN Some(Tool("ultra", 300)) ELSE None

\* TOOLS.find(t => t.id === name)
FindTool(name) == IF name \in DOMAIN TOOLS THEN Some(TOOLS[name]) ELSE None

\* PaymentService.getToolPrice: null for an unknown tool, else {cro, usdc}
getToolPrice(toolId) ==
  IF IsSome(FindTool(toolId)) THEN Some(Get(FindTool(toolId)).priceInCRO) ELSE None

\* the switch of executeTool: the ids that have a case
ExecCases ==
  {"get_cronos_balance", "get_gas_price", "get_token_price",
   "check_transaction_status", "analyze_wallet_portfolio",
   "get_historical_price_data", "find_arbitrage_opportunities",
   "optimize_swap_route", "vvs_swap", "execute_token_swap",
   "auto_compound_rewards"}

\* the tier literal each case of executeTool writes into its envelope
ExecTier(toolId) ==
  IF toolId \in {"get_cronos_balance", "get_gas_price", "get_token_price",
                 "check_transaction_status"} THEN "free"
  ELSE IF toolId \in {"vvs_swap", "execute_token_swap", "auto_compound_rewards"}
       THEN "ultra" ELSE "premium"

\* ------------------------------------------------------ numeric conversions
\* Math.floor(amountCRO * 1000000), amountCRO given in hundredths
UsdceAmount(cents) == (cents * Pow10(USDCE_DECIMALS)) \div 100

\* ethers.formatUnits(v, 6): the decimal string, kept as <<integer part, fraction>>
formatUnits(v) == <<v \div Pow10(USDCE_DECIMALS), v % Pow10(USDCE_DECIMALS)>>

\* the string literal '0' that the balance getters return from their catch
ZeroString == <<0>>

\* parseFloat of a decimal string, in base units
parseFloat(s) ==
  IF Len(s) = 1 THEN s[1] * Pow10(USDCE_DECIMALS)
  ELSE s[1] * Pow10(USDCE_DECIMALS) + s[2]

\* variant: the balance in base units is compared with the price in tokens
BalanceBelowPrice_WrongUnit(usdceBalance, price) ==
  parseFloat(usdceBalance) < (IF IsSome(price) THEN Get(price) ELSE 0)

\* variant: the '0' of a failed read does not parse and compares as NaN
BalanceBelowPrice_NaN(usdceBalance, price) ==
  /\ Len(usdceBalance) # 1
  /\ parseFloat(usdceBalance) * 100
       < (IF IsSome(price) THEN Get(price) ELSE 0) * Pow10(USDCE_DECIMALS)

\* parseFloat(usdceBalance) < (price?.cro || 0)
BalanceBelowPrice(usdceBalance, price) ==
  parseFloat(usdceBalance) * 100
    < (IF IsSome(price) THEN Get(price) ELSE 0) * Pow10(USDCE_DECIMALS)

\* ----------------------------------------------------------------- messages
\* an Error message: the template that built it, the substrings that
\* String.includes can find in it, and the values interpolated into it
Msg(kind, words, have, need) ==
  [kind |-> kind, words |-> words, have |-> have, need |-> need]
NoMsg == Msg("", <<>>, <<>>, <<>>)
Includes(msg, needle) == needle \in Range(msg.words)

ToolNotFoundMsg(name) == Msg("Tool '${name}' not found", <<"not found">>, <<>>, <<>>)
InsufficientMsg(usdceBalance, price) ==
  Msg("Insufficient USDCe. You have ${usdceBalance} USDCe but need ${price?.cro} USDCe.",
      <<"Insufficient USDCe">>, usdceBalance, price)
PaymentFailedMsg == Msg("Payment failed", <<"Payment failed">>, <<>>, <<>>)
ImplNotFoundMsg == Msg("Tool implementation not found for ${toolId}", <<"not found">>, <<>>, <<>>)
HandlerFailedMsg == Msg("Failed to get ...: ${error}", <<"Failed to get">>, <<>>, <<>>)

getErrorSuggestion(error) ==
  IF Includes(error, "Insufficient USDCe") THEN "Fund your wallet with USDCe and retry."
  ELSE IF Includes(error, "not found") THEN "Check the tool name and try again."
  ELSE "Please check the error and try again."


\* ------------------------------------------------------------ JavaScript values
\* a value as handlePayment sees it: a boolean has no own properties
JsBoolean(b) == [type |-> "boolean", val |-> b, props |-> <<>>]
\* value.prop: undefined (None) unless value is an object that has the property
ReadProperty(value, prop) ==
  IF value.type = "object" /\ prop \in DOMAIN value.props
  THEN Some(value.props[prop]) ELSE None
Truthy(o) == IsSome(o) /\ Get(o) = TRUE

\* ------------------------------------------------------------------ requests
NoArgs == [address |-> None, userAddress |-> None]
RequestArgs ==
  {NoArgs, [address |-> Some(OtherAddress), userAddress |-> None]}
RequestNames ==
  {"get_gas_price", "check_x402_status", "analyze_wallet_portfolio",
   "get_historical_price_data", "execute_token_swap", "vvs_swap"}

\* args?.address || args?.userAddress || process.env.DEFAULT_USER_ADDRESS || '0x00..'
getUserAddress(args) ==
  IF IsSome(args.address) THEN Get(args.address)
  ELSE IF IsSome(args.userAddress) THEN Get(args.userAddress)
  ELSE IF IsSome(DEFAULT_USER_ADDRESS) THEN Get(DEFAULT_USER_ADDRESS)
  ELSE ZeroAddress

\* variant: the balance of the address passed in is read
getBalanceAccount_Param(userAddress) == userAddress

\* the account PaymentService.getBalance(userAddress) reads: the signer's own
\* address (x402Service.getUSDCeBalance takes no argument)
getBalanceAccount(userAddress) == SignerAddress

\* the account executePayment checks and signs for: signer.getAddress()
walletAddressOf(userAddress) == SignerAddress

\* --------------------------------------------------------------------- state
VARIABLES
  inv,         \* the invocations: locals and position of each async call
  log,         \* x402-payments.log, one entry per appendFileSync
  usdce,       \* on-chain USDCe balance of every account
  nTx,         \* number of settled transfers on chain
  clock,       \* Date.now()
  privateKey,  \* process.env.PRIVATE_KEY || ''
  logWritable, \* appendFileSync on the log file succeeds
  agent        \* CronosAgent: the locals and position of chat()

vars == <<inv, log, usdce, nTx, clock, privateKey, logWritable, agent>>

Procs == 1..MaxInv

\* usdceContract.balanceOf(account): an account that never held USDCe has 0
balanceOf(account) == IF account \in DOMAIN usdce THEN usdce[account] ELSE 0

Idle ==
  [pc |-> "idle", name |-> "", args |-> NoArgs, userAddress |-> "",
   usdceBalance |-> None, croBalance |-> None, price |-> None,
   paymentId |-> None, walletAddress |-> "", paymentAmountWei |-> 0,
   balanceBefore |-> None, header |-> None, requirements |-> None,
   verify |-> None, settle |-> None, balanceAfter |-> None,
   result |-> None, paymentResult |-> None, paymentInfo |-> None,
   envelope |-> None,
   \* history kept for the properties, not read by the program:
   calls |-> <<>>,        \* the external calls this invocation issued, in order
   debited |-> FALSE,     \* its settlePayment moved funds
   logged |-> 0,          \* the number of log lines it wrote
   overlapped |-> FALSE,  \* it was in flight together with another invocation
   killedAt |-> ""]       \* where it was when the server process was killed

\* ----------------------------------------------------------------- envelopes
ErrorEnvelope(name, error) ==
  [isError |-> TRUE, success |-> None, tool |-> Some(name), tier |-> None,
   paymentMethod |-> None, paymentDetails |-> None, error |-> Some(error),
   suggestion |-> Some(getErrorSuggestion(error)), balances |-> None]

\* the object a case of executeTool returns; the free cases have no
\* paymentDetails field, the paid cases carry paymentInfo (null by default)
ToolEnvelope(toolId, paymentInfo) ==
  [isError |-> FALSE, success |-> Some(TRUE), tool |-> Some(toolId),
   tier |-> Some(ExecTier(toolId)),
   paymentMethod |-> IF ExecTier(toolId) = "free" THEN None ELSE Some("x402"),
   paymentDetails |-> IF ExecTier(toolId) = "free" THEN None ELSE Some(paymentInfo),
   error |-> None, suggestion |-> None, balances |-> None]

StatusEnvelope(croBalance, usdceBalance) ==
  [isError |-> FALSE, success |-> Some(TRUE), tool |-> None, tier |-> None,
   paymentMethod |-> None, paymentDetails |-> None, error |-> None,
   suggestion |-> None,
   balances |-> Some([cro |-> croBalance, usdce |-> usdceBalance])]

\* --------------------------------------------------------------- audit log
LogLine(tag, id, data) == [tag |-> tag, id |-> id, data |-> data]
Plain(tag) == LogLine(tag, None, <<>>)
Separator == Plain("====")
InitBanner == Plain("X402 Service Initialized")

\* --------------------------------------------------------- dispatcher pieces
\* a step's outcome: the invocation's new locals and the lines it logged
Out(v, lines) == [v |-> v, lines |-> lines]
Call(v, what, who) == [v EXCEPT !.calls = Append(@, <<what, who>>)]
Finish(v, envelope) == [v EXCEPT !.pc = "done", !.envelope = Some(envelope)]

\* variant: the exception leaves the request handler, no envelope is built
Caught_Propagates(v, error) == [v EXCEPT !.pc = "done"]

\* the dispatcher's catch block
Caught(v, error) == Finish(v, ErrorEnvelope(v.name, error))

\* cases of executeTool that return without awaiting anything
NoAwaitCases ==
  {"get_historical_price_data", "find_arbitrage_opportunities",
   "optimize_swap_route", "execute_token_swap", "auto_compound_rewards"}

\* executeTool(name, args, userAddress, paymentInfo) up to its first await
executeTool(v, paymentInfo) ==
  LET w == Call([v EXCEPT !.paymentInfo = paymentInfo], "executeTool", v.name)
  IN  IF v.name \notin ExecCases THEN Caught(w, ImplNotFoundMsg)
      ELSE IF v.name \in NoAwaitCases THEN Finish(w, ToolEnvelope(v.name, paymentInfo))
      ELSE [w EXCEPT !.pc = "exec"]


\* ------------------------------------------------------- X402Service messages
KeyMissingMsg == Msg("Private Key missing in .env", <<"Private Key missing">>, <<>>, <<>>)
RpcErrorMsg == Msg("${rpc error}", <<"rpc error">>, <<>>, <<>>)
FacilitatorErrorMsg == Msg("${facilitator error}", <<"facilitator error">>, <<>>, <<>>)
X402InsufficientMsg(have, need) ==
  Msg("Insufficient USDCe. Have: ${balanceBeforeFormatted}, Need: ${formatUnits(paymentAmountWei)}",
      <<"Insufficient USDCe">>, have, need)
\* `Verification failed: ${verify.invalidReason || 'Unknown'}`
VerificationFailedMsg(invalidReason) ==
  Msg("Verification failed: ${invalidReason}",
      <<"Verification failed">> \o (IF invalidReason = <<>> THEN <<"Unknown">> ELSE invalidReason),
      <<>>, <<>>)
SettlementFailedMsg == Msg("Settlement failed", <<"Settlement failed">>, <<>>, <<>>)
SettleErrorMsg == Msg("${settle.error}", <<"transfer rejected">>, <<>>, <<>>)

\* the facilitator's answers
VerifyResponses ==
  {[isValid |-> TRUE, invalidReason |-> <<>>],
   [isValid |-> FALSE, invalidReason |-> <<"signature mismatch">>],
   [isValid |-> FALSE, invalidReason |-> <<>>]}
SettleOutcomes == {"settled", "rejected", "rejected-error", "moved-no-reference", "throws"}
SettleDebits(outcome) == outcome \in {"settled", "moved-no-reference"}

\* amountCRO.toString()
NumberToString(cents) == <<"number", cents>>
NoReferenceMarker == <<"Check wallet history - payment completed">>

\* ------------------------------------------------ X402Service.executePayment
\* `${toolId}-${Date.now()}`
PaymentId(toolId, now) == <<toolId, now>>

FailureResult(v, error, now) ==
  [success |-> FALSE, txHash |-> None, explorerUrl |-> None,
   amount |-> NumberToString(Get(v.price)), timestamp |-> now \div 1000,
   verified |-> FALSE, settled |-> FALSE, error |-> Some(error),
   balanceBefore |-> None, balanceAfter |-> None, amountSpent |-> None]

SuccessResult(v, txHash, explorerUrl, balanceAfter, now) ==
  [success |-> TRUE, txHash |-> Some(txHash), explorerUrl |-> explorerUrl,
   amount |-> formatUnits(v.paymentAmountWei), timestamp |-> now \div 1000,
   verified |-> TRUE, settled |-> TRUE, error |-> None,
   balanceBefore |-> Some(formatUnits(Get(v.balanceBefore))),
   balanceAfter |-> Some(formatUnits(balanceAfter)),
   amountSpent |-> Some(formatUnits(Get(v.balanceBefore) - balanceAfter))]

\* the no-txHash branch: `if (balanceAfter < balanceBefore)`
BalanceDecreased(balanceBefore, balanceAfter, required) == balanceAfter < balanceBefore

\* PaymentService.processPayment: true when result.success, else the throw is
\* caught and false is returned
processPaymentReturn(result) == JsBoolean(result.success)

\* variant: the outcome of processPayment is not looked at
PaymentAccepted_Any(paymentResult) == TRUE

\* handlePayment after `await processPayment`: `if (paymentResult.success)`
PaymentAccepted(paymentResult) == Truthy(ReadProperty(paymentResult, "success"))

\* handlePayment from the value processPayment returned to the dispatcher's next
\* step: return paymentResult.payment and execute, or throw 'Payment failed'
AfterPayment(v, result) ==
  LET paymentResult == processPaymentReturn(result)
      w == [v EXCEPT !.result = Some(result), !.paymentResult = Some(paymentResult)]
  IN  IF PaymentAccepted(paymentResult)
      THEN executeTool(w, ReadProperty(paymentResult, "payment"))
      ELSE Caught(w, PaymentFailedMsg)

\* variant: the catch block of executePayment logs and rethrows, so the call
\* ends without an outcome
PaymentFailed_Rethrow(v, error, now, lines) ==
  Out(Caught(v, error),
      lines \o <<LogLine("PAYMENT FAILED", v.paymentId, <<>>),
                 LogLine("Error", None, <<error>>),
                 Plain("Stack")>>)

\* variant: the catch block of executePayment returns the failure without
\* writing it to the log
PaymentFailed_Silent(v, error, now, lines) ==
  Out(AfterPayment(v, FailureResult(v, error, now)), lines)

\* the catch block of executePayment, then the return to the dispatcher
PaymentFailed(v, error, now, lines) ==
  Out(AfterPayment(v, FailureResult(v, error, now)),
      lines \o <<LogLine("PAYMENT FAILED", v.paymentId, <<>>),
                 LogLine("Error", None, <<error>>),
                 Plain("Stack")>>)

\* executePayment from its entry to `await usdceContract.balanceOf(walletAddress)`
executePaymentStart(v, now, key) ==
  LET paymentId == PaymentId(v.name, now)
      amount == UsdceAmount(Get(v.price))
      wallet == walletAddressOf(v.userAddress)
      w == [v EXCEPT !.paymentId = Some(paymentId)]
      head == <<Separator, LogLine("Starting payment", Some(paymentId), <<>>), Separator>>
  IN  IF key = "" THEN PaymentFailed(w, KeyMissingMsg, now, head)
      ELSE Out(Call([w EXCEPT !.pc = "xp_balBefore", !.walletAddress = wallet,
                              !.paymentAmountWei = amount],
                    "balanceOf", wallet),
               head \o <<Plain("PAYMENT DETAILS"),
                         LogLine("Payment ID", Some(paymentId), <<>>),
                         LogLine("From", None, <<wallet>>),
                         LogLine("To", None, <<recipientAddress>>),
                         LogLine("Tool", None, <<v.name>>),
                         LogLine("Amount", None, formatUnits(amount)),
                         Plain("Asset")>>)

\* handlePayment once both balances are known: the price check, then
\* processPayment -> executeToolPayment -> executePayment
handlePaymentCheck(v, usdceBalance, now, key) ==
  LET price == getToolPrice(v.name)
      w == [v EXCEPT !.usdceBalance = usdceBalance, !.price = price]
  IN  IF BalanceBelowPrice(usdceBalance, price)
      THEN Out(Caught(w, InsufficientMsg(usdceBalance, price)), <<>>)
      ELSE executePaymentStart(w, now, key)


\* ---------------------------------------------------------------------- Init
InitBalances ==
  {k * UsdceAmount(TOOLS["get_historical_price_data"].priceInCRO) :
     k \in 0..MaxInitBalanceSteps}

\* CronosAgent before chat() is called
AgentStart ==
  [pc |-> "prompt", conversationHistory |-> <<>>, continueLoop |-> FALSE,
   finalResponse |-> 0,      \* the number of text blocks concatenated
   response |-> None,        \* the model response being processed
   assistantContent |-> <<>>,
   \* history kept for the properties, not read by the program:
   nResponses |-> 0,         \* model responses received
   nToolResponses |-> 0,     \* of these, the ones with a tool_use block
   nToolCalls |-> 0]         \* callMCPTool calls issued

Init ==
  /\ inv = [i \in Procs |-> Idle]
  /\ log = <<InitBanner>>
  /\ \E b \in InitBalances :
       usdce = [a \in Accounts |-> IF a = SignerAddress THEN b ELSE 0]
  /\ nTx = 0
  /\ clock = 0
  /\ privateKey \in {"", "0xkey"}
  /\ logWritable = TRUE
  /\ agent = AgentStart

InFlight(v) == v.pc \notin {"idle", "done", "killed"}

\* variant: the log file is written anew with every message
writeFileSync(file, lines) == lines

\* variant: the message is handed to a buffer that is flushed later
appendFile_Deferred(file, lines) == file

\* X402Service.log: appendFileSync(this.logFile, message)
appendFileSync(file, lines) == file \o lines

\* variant: log has no try/catch, a failed append throws into the caller
AfterFailedAppend_Throws(continued, thrown) == thrown

\* X402Service.log: the catch block reports on the console and returns, the
\* caller continues
AfterFailedAppend(continued, thrown) == continued

\* the error a failed append would throw
LogWriteFailedMsg == Msg("${appendFileSync error}", <<"log write failed">>, <<>>, <<>>)

\* this.log(...) for each of lines: appended when the file can be written
WriteLog(lines) == IF logWritable THEN appendFileSync(log, lines) ELSE log

\* one synchronous run of invocation i: its new locals and the lines it logs
Commit(i, out) ==
  LET w == [out.v EXCEPT !.logged = @ + Len(out.lines)]
  IN  /\ inv' = [inv EXCEPT ![i] =
                   IF logWritable \/ out.lines = <<>> THEN w
                   ELSE AfterFailedAppend(w, Caught(out.v, LogWriteFailedMsg))]
      /\ log' = WriteLog(out.lines)

\* variant: every catalog tool goes through the payment gate
RequiresPayment_Always(tool) == TRUE

\* index.ts: `if (tool.tier !== 'free')`
RequiresPayment(tool) == tool.tier # "free"

\* variant: the status tool has no branch of its own in the dispatcher
IsStatusTool_Never(name) == FALSE

\* index.ts: `if (name === 'check_x402_status')`
IsStatusTool(name) == name = "check_x402_status"

\* ------------------------------------------------- the CallTool request handler
\* from the arrival of the request to the first await
Dispatch(v, now, key) ==
  LET tool == FindTool(v.name)
  IN  IF ~IsSome(tool) THEN Out(Caught(v, ToolNotFoundMsg(v.name)), <<>>)
      ELSE IF IsStatusTool(v.name)
      THEN Out(Call([v EXCEPT !.pc = "st_caps"], "getSupported", ""), <<>>)
      ELSE IF RequiresPayment(Get(tool))
      THEN IF key = ""
           THEN handlePaymentCheck(v, ZeroString, now, key)
           ELSE Out(Call([v EXCEPT !.pc = "hp_usdce"], "balanceOf",
                         getBalanceAccount(v.userAddress)), <<>>)
      ELSE Out(executeTool(v, None), <<>>)

\* a request arrives; `overlap` tells whether it may arrive while another
\* invocation is still in flight
ReceiveFrom(i, names, argss, overlap) ==
  /\ inv[i].pc = "idle"
  /\ \A j \in Procs : j < i => inv[j].pc # "idle"
  /\ overlap \/ \A j \in Procs : ~InFlight(inv[j])
  /\ \E name \in names, args \in argss :
       LET busy == \E j \in Procs : InFlight(inv[j])
           out == Dispatch([Idle EXCEPT !.name = name, !.args = args,
                                        !.userAddress = getUserAddress(args),
                                        !.overlapped = busy],
                           clock, privateKey)
       IN  /\ inv' = [j \in Procs |->
                       IF j = i THEN [out.v EXCEPT !.logged = Len(out.lines)]
                       ELSE IF InFlight(inv[j]) THEN [inv[j] EXCEPT !.overlapped = TRUE]
                       ELSE inv[j]]
           /\ log' = WriteLog(out.lines)
  /\ UNCHANGED <<usdce, nTx, clock, privateKey, logWritable, agent>>

Receive(i) == ReceiveFrom(i, RequestNames, RequestArgs, FALSE)

\* handlePayment: `await this.paymentService.getBalance(userAddress)` answers;
\* getUSDCeBalance returns '0' when the read throws
HP_UsdceBalance(i) ==
  /\ inv[i].pc = "hp_usdce"
  /\ \E ok \in BOOLEAN :
       LET v == inv[i]
           usdceBalance == IF ok THEN formatUnits(balanceOf(getBalanceAccount(v.userAddress)))
                           ELSE ZeroString
       IN  Commit(i, Out(Call([v EXCEPT !.pc = "hp_cro", !.usdceBalance = usdceBalance],
                              "getBalance", SignerAddress), <<>>))
  /\ UNCHANGED <<usdce, nTx, clock, privateKey, logWritable, agent>>

\* handlePayment: `await this.paymentService.getCROBalance()` answers (the value
\* is only printed), then the price check and the payment start. Date.now() is
\* read at millisecond precision here only (the payment id); every other read is
\* in whole seconds, so the time that passed since the last read is taken here.
HP_CroBalance(i) ==
  /\ inv[i].pc = "hp_cro"
  /\ \E now \in clock..MaxClock :
       /\ clock' = now
       /\ Commit(i, handlePaymentCheck(inv[i], inv[i].usdceBalance, now, privateKey))
  /\ UNCHANGED <<usdce, nTx, privateKey, logWritable, agent>>

\* variant: the expiry is computed from the millisecond clock without the
\* conversion to seconds
validBefore_Millis(now) == now + ValidityWindow

\* const validBefore = Math.floor(Date.now() / 1000) + 3600
validBefore(now) == now \div 1000 + ValidityWindow

\* executePayment: the balanceOf read before the payment answers
XP_BalanceBefore(i) ==
  /\ inv[i].pc = "xp_balBefore"
  /\ \E ok \in BOOLEAN :
       LET v == inv[i]
           balanceBefore == balanceOf(v.walletAddress)
           w == [v EXCEPT !.balanceBefore = Some(balanceBefore)]
           seen == <<LogLine("BALANCE BEFORE", None, formatUnits(balanceBefore))>>
       IN  IF ~ok THEN Commit(i, PaymentFailed(v, RpcErrorMsg, clock, <<>>))
           ELSE IF balanceBefore < v.paymentAmountWei
           THEN Commit(i, PaymentFailed(w, X402InsufficientMsg(formatUnits(balanceBefore),
                                                              formatUnits(v.paymentAmountWei)),
                                        clock, seen))
           ELSE Commit(i, Out(Call([w EXCEPT !.pc = "xp_header",
                                             !.header = Some([to |-> recipientAddress,
                                                             value |-> v.paymentAmountWei,
                                                             validBefore |-> validBefore(clock)])],
                                   "generatePaymentHeader", v.walletAddress),
                              seen \o <<Plain("Generating payment header")>>))
  /\ UNCHANGED <<usdce, nTx, clock, privateKey, logWritable, agent>>

\* executePayment: generatePaymentHeader answers; the requirements and the verify
\* body are built and verifyPayment is issued
XP_Header(i) ==
  /\ inv[i].pc = "xp_header"
  /\ \E ok \in BOOLEAN :
       LET v == inv[i]
           requirements == [payTo |-> recipientAddress,
                            maxAmountRequired |-> v.paymentAmountWei]
       IN  IF ~ok THEN Commit(i, PaymentFailed(v, FacilitatorErrorMsg, clock, <<>>))
           ELSE Commit(i, Out(Call([v EXCEPT !.pc = "xp_verify",
                                             !.requirements = Some(requirements)],
                                   "verifyPayment", v.walletAddress),
                              <<Plain("Header generated"),
                                Plain("Generating requirements"),
                                LogLine("Requirements", None,
                                        <<requirements.payTo, requirements.maxAmountRequired>>),
                                Plain("Building verify request"),
                                Plain("Verifying payment")>>))
  /\ UNCHANGED <<usdce, nTx, clock, privateKey, logWritable, agent>>

\* variant: the verifier's verdict is not looked at
VerifyRejected_Never(verify) == FALSE

\* if (!verify.isValid): the verifier refused the authorization
VerifyRejected(verify) == ~verify.isValid

\* executePayment: verifyPayment answers; on isValid settlePayment is issued
XP_Verify(i) ==
  /\ inv[i].pc = "xp_verify"
  /\ \/ Commit(i, PaymentFailed(inv[i], FacilitatorErrorMsg, clock, <<>>))
     \/ \E verify \in VerifyResponses :
          LET v == [inv[i] EXCEPT !.verify = Some(verify)]
              seen == <<LogLine("Verify Response", None, <<verify.isValid>>)>>
          IN  IF VerifyRejected(verify)
              THEN Commit(i, PaymentFailed(v, VerificationFailedMsg(verify.invalidReason), clock,
                                           seen \o <<LogLine("VERIFICATION FAILED", None,
                                                             verify.invalidReason)>>))
              ELSE Commit(i, Out(Call([v EXCEPT !.pc = "xp_settle"],
                                      "settlePayment", v.walletAddress),
                                 seen \o <<Plain("Payment verified"),
                                           Plain("Settling payment on-chain")>>))
  /\ UNCHANGED <<usdce, nTx, clock, privateKey, logWritable, agent>>


\* the facilitator's settlePayment: the only call that moves funds; it answers
\* with a txHash, without one, or the call throws
SettleResponse(outcome, tx) ==
  [txHash |-> IF outcome = "settled" THEN Some(<<"0xtx", tx>>) ELSE None,
   error |-> IF outcome = "rejected-error" THEN Some(SettleErrorMsg) ELSE None]

\* variant: the facilitator drops a transfer that repeats one the payee already
\* received (de-duplication of charges)
Transfer_Deduplicated(balances, from, to, amount) ==
  IF balances[to] >= amount THEN balances
  ELSE [balances EXCEPT ![from] = @ - amount, ![to] = @ + amount]

\* the EIP-3009 transfer that a settlement executes on chain
Transfer(balances, from, to, amount) ==
  [balances EXCEPT ![from] = @ - amount, ![to] = @ + amount]

\* executePayment: settlePayment answers; the response is logged and the balance
\* is read again
XP_Settle(i) ==
  /\ inv[i].pc = "xp_settle"
  /\ \E outcome \in SettleOutcomes :
       LET v == inv[i]
           amount == Get(v.header).value
           to == Get(v.header).to
           settle == SettleResponse(outcome, nTx + 1)
           w == [v EXCEPT !.settle = Some(settle), !.debited = SettleDebits(outcome),
                          !.pc = "xp_balAfter"]
           seen == <<Plain("SETTLE RESPONSE"), LogLine("settle", None, settle.txHash)>>
       IN  /\ SettleDebits(outcome) => usdce[v.walletAddress] >= amount
           /\ IF SettleDebits(outcome)
              THEN /\ usdce' = Transfer(usdce, v.walletAddress, to, amount)
                   /\ nTx' = nTx + 1
              ELSE UNCHANGED <<usdce, nTx>>
           /\ IF outcome = "throws"
              THEN Commit(i, PaymentFailed(v, FacilitatorErrorMsg, clock, <<>>))
              ELSE IF IsSome(settle.txHash)
              THEN Commit(i, Out(Call(w, "balanceOf", v.walletAddress),
                                 seen \o <<Plain("PAYMENT SETTLED"),
                                           LogLine("Transaction", None, settle.txHash),
                                           LogLine("Explorer", None, settle.txHash),
                                           LogLine("From", None, <<v.walletAddress>>),
                                           LogLine("To", None, <<to>>),
                                           LogLine("Value", None, <<amount>>),
                                           Plain("Block"), Plain("Network"),
                                           Plain("Timestamp")>>))
              ELSE Commit(i, Out(Call(w, "balanceOf", v.walletAddress),
                                 seen \o <<Plain("No txHash in settle response"),
                                           Plain("Event"),
                                           LogLine("Error", None, settle.error)>>))
  /\ UNCHANGED <<clock, privateKey, logWritable, agent>>

\* executePayment: the balanceOf read after settlement answers; the result is
\* built and returned through processPayment to handlePayment
XP_BalanceAfter(i) ==
  /\ inv[i].pc = "xp_balAfter"
  /\ \E ok \in BOOLEAN :
       LET v == inv[i]
           settle == Get(v.settle)
           balanceBefore == Get(v.balanceBefore)
           balanceAfter == balanceOf(v.walletAddress)
           w == [v EXCEPT !.balanceAfter = Some(balanceAfter)]
           spent == formatUnits(balanceBefore - balanceAfter)
       IN  IF ~ok THEN Commit(i, PaymentFailed(v, RpcErrorMsg, clock, <<>>))
           ELSE IF IsSome(settle.txHash)
           THEN Commit(i, Out(AfterPayment(w, SuccessResult(w, Get(settle.txHash),
                                                           Some(Get(settle.txHash)),
                                                           balanceAfter, clock)),
                              <<LogLine("BALANCE AFTER", None, formatUnits(balanceAfter)),
                                LogLine("AMOUNT SPENT", None, spent),
                                Separator,
                                LogLine("PAYMENT COMPLETED", v.paymentId, <<>>),
                                Separator>>))
           ELSE IF BalanceDecreased(balanceBefore, balanceAfter, v.paymentAmountWei)
           THEN Commit(i, Out(AfterPayment(w, SuccessResult(w, NoReferenceMarker, None,
                                                           balanceAfter, clock)),
                              <<LogLine("USDCe WAS DEDUCTED", None, spent),
                                Plain("Payment processed (check wallet history)")>>))
           ELSE Commit(i, PaymentFailed(w, IF IsSome(settle.error) THEN Get(settle.error)
                                           ELSE SettlementFailedMsg, clock, <<>>))
  /\ UNCHANGED <<usdce, nTx, clock, privateKey, logWritable, agent>>

\* executeTool: the awaited service call of the case answers or throws
Exec(i) ==
  /\ inv[i].pc = "exec"
  /\ \E ok \in BOOLEAN :
       LET v == inv[i]
       IN  Commit(i, Out(IF ok THEN Finish(v, ToolEnvelope(v.name, v.paymentInfo))
                         ELSE Caught(v, HandlerFailedMsg), <<>>))
  /\ UNCHANGED <<usdce, nTx, clock, privateKey, logWritable, agent>>

\* handleX402Status: getX402Capabilities answers (getSupported catches and logs
\* its own failure), then getBalance('') is awaited
ST_Capabilities(i) ==
  /\ inv[i].pc = "st_caps"
  /\ \E ok \in BOOLEAN :
       LET v == inv[i]
           lines == IF ok THEN <<>> ELSE <<Plain("Failed to get supported")>>
       IN  IF privateKey = ""
           THEN Commit(i, Out(Finish([v EXCEPT !.usdceBalance = ZeroString,
                                               !.croBalance = ZeroString],
                                     StatusEnvelope(ZeroString, ZeroString)), lines))
           ELSE Commit(i, Out(Call([v EXCEPT !.pc = "st_usdce"], "balanceOf",
                                   getBalanceAccount("")), lines))
  /\ UNCHANGED <<usdce, nTx, clock, privateKey, logWritable, agent>>

ST_UsdceBalance(i) ==
  /\ inv[i].pc = "st_usdce"
  /\ \E ok \in BOOLEAN :
       LET v == inv[i]
           usdceBalance == IF ok THEN formatUnits(balanceOf(getBalanceAccount("")))
                           ELSE ZeroString
       IN  Commit(i, Out(Call([v EXCEPT !.pc = "st_cro", !.usdceBalance = usdceBalance],
                              "getBalance", SignerAddress), <<>>))
  /\ UNCHANGED <<usdce, nTx, clock, privateKey, logWritable, agent>>

\* the CRO (gas) balance is not part of this model's chain: the read answers
\* with the formatted gas balance (here "1.0") or, on failure, '0'
ST_CroBalance(i) ==
  /\ inv[i].pc = "st_cro"
  /\ \E croBalance \in {ZeroString, <<1, 0>>} :
       LET v == [inv[i] EXCEPT !.croBalance = croBalance]
       IN  Commit(i, Out(Finish(v, StatusEnvelope(croBalance, v.usdceBalance)), <<>>))
  /\ UNCHANGED <<usdce, nTx, clock, privateKey, logWritable, agent>>

Next ==
  \/ \E i \in Procs : Receive(i)
  \/ \E i \in Procs : HP_UsdceBalance(i)
  \/ \E i \in Procs : HP_CroBalance(i)
  \/ \E i \in Procs : XP_BalanceBefore(i)
  \/ \E i \in Procs : XP_Header(i)
  \/ \E i \in Procs : XP_Verify(i)
  \/ \E i \in Procs : XP_Settle(i)
  \/ \E i \in Procs : XP_BalanceAfter(i)
  \/ \E i \in Procs : Exec(i)
  \/ \E i \in Procs : ST_Capabilities(i)
  \/ \E i \in Procs : ST_UsdceBalance(i)
  \/ \E i \in Procs : ST_CroBalance(i)

Spec == Init /\ [][Next]_vars

\* ------------------------------------------------------ overlapping invocations
\* the same server with requests that arrive while another is in flight
OverlapNames ==
  {"analyze_wallet_portfolio", "get_historical_price_data", "get_gas_price",
   "check_x402_status"}

\* a balance that pays analyze_wallet_portfolio once and
\* get_historical_price_data twice
OverlapBalances == {UsdceAmount(TOOLS["analyze_wallet_portfolio"].priceInCRO)}

InitOverlap ==
  /\ inv = [i \in Procs |-> Idle]
  /\ log = <<InitBanner>>
  /\ \E b \in OverlapBalances :
       usdce = [a \in Accounts |-> IF a = SignerAddress THEN b ELSE 0]
  /\ nTx = 0
  /\ clock = 0
  /\ privateKey = "0xkey"
  /\ logWritable = TRUE
  /\ agent = AgentStart

ReceiveOverlap(i) == ReceiveFrom(i, OverlapNames, {NoArgs}, TRUE)

NextOverlap ==
  \/ \E i \in Procs : ReceiveOverlap(i)
  \/ \E i \in Procs : HP_UsdceBalance(i)
  \/ \E i \in Procs : HP_CroBalance(i)
  \/ \E i \in Procs : XP_BalanceBefore(i)
  \/ \E i \in Procs : XP_Header(i)
  \/ \E i \in Procs : XP_Verify(i)
  \/ \E i \in Procs : XP_Settle(i)
  \/ \E i \in Procs : XP_BalanceAfter(i)
  \/ \E i \in Procs : Exec(i)
  \/ \E i \in Procs : ST_Capabilities(i)
  \/ \E i \in Procs : ST_UsdceBalance(i)
  \/ \E i \in Procs : ST_CroBalance(i)

SpecOverlap == InitOverlap /\ [][NextOverlap]_vars


\* ------------------------------------------------ the server process's lifetime
MaxRestarts == 1

Banners == Cardinality({k \in 1..Len(log) : log[k] = InitBanner})

\* the agent's exit (mcpProcess.kill()) or any other stop of the process,
\* followed by a new start: the invocations in flight are gone where they
\* were, the constructor of X402Service appends its banner to the same file
Restart ==
  /\ Banners <= MaxRestarts
  /\ inv' = [i \in Procs |->
              IF InFlight(inv[i])
              THEN [inv[i] EXCEPT !.pc = "killed", !.killedAt = inv[i].pc]
              ELSE inv[i]]
  /\ log' = WriteLog(<<InitBanner>>)
  /\ UNCHANGED <<usdce, nTx, clock, privateKey, logWritable, agent>>

NextLifecycle ==
  \/ Next
  \/ Restart

SpecLifecycle == Init /\ [][NextLifecycle]_vars

\* ------------------------------------------------- the log file cannot be written
\* the server started in a directory where x402-payments.log may be unwritable:
\* the constructor's banner is lost with every other line
InitLogFault ==
  /\ inv = [i \in Procs |-> Idle]
  /\ logWritable \in BOOLEAN
  /\ log = IF logWritable THEN <<InitBanner>> ELSE <<>>
  /\ \E b \in InitBalances :
       usdce = [a \in Accounts |-> IF a = SignerAddress THEN b ELSE 0]
  /\ nTx = 0
  /\ clock = 0
  /\ privateKey = "0xkey"
  /\ agent = AgentStart

\* the file system stops accepting appends (disk full, permissions withdrawn)
LogFault ==
  /\ logWritable
  /\ logWritable' = FALSE
  /\ UNCHANGED <<inv, log, usdce, nTx, clock, privateKey, agent>>

NextLogFault ==
  \/ Next
  \/ LogFault

SpecLogFault == InitLogFault /\ [][NextLogFault]_vars

\* ------------------------------------------------------- a silent facilitator
\* the steps whose awaited call is answered sooner or later: the RPC reads, the
\* local signing of the header and the handlers
AnsweredStep ==
  \E i \in Procs :
    \/ HP_UsdceBalance(i) \/ HP_CroBalance(i)
    \/ XP_BalanceBefore(i) \/ XP_Header(i) \/ XP_BalanceAfter(i)
    \/ Exec(i)
    \/ ST_Capabilities(i) \/ ST_UsdceBalance(i) \/ ST_CroBalance(i)

\* the same server; nothing obliges the facilitator to answer verifyPayment or
\* settlePayment, every other awaited call is answered
SpecSilentFacilitator == Init /\ [][Next]_vars /\ WF_vars(AnsweredStep)

\* ------------------------------------------------- payment attempts on their own
\* PaymentService.processPayment(userAddress, toolId) called for a paid tool
\* without the balance gate of handlePayment in front of it
AttemptNames == {"analyze_wallet_portfolio", "get_historical_price_data"}

ReceiveAttempt(i) ==
  /\ inv[i].pc = "idle"
  /\ \A j \in Procs : j < i => inv[j].pc = "done"
  /\ \E name \in AttemptNames, now \in clock..MaxClock :
       /\ clock' = now
       /\ Commit(i, executePaymentStart([Idle EXCEPT !.name = name,
                                                     !.userAddress = getUserAddress(NoArgs),
                                                     !.price = getToolPrice(name)],
                                        now, privateKey))
  /\ UNCHANGED <<usdce, nTx, privateKey, logWritable, agent>>

NextAttempt ==
  \/ \E i \in Procs : ReceiveAttempt(i)
  \/ \E i \in Procs : XP_BalanceBefore(i)
  \/ \E i \in Procs : XP_Header(i)
  \/ \E i \in Procs : XP_Verify(i)
  \/ \E i \in Procs : XP_Settle(i)
  \/ \E i \in Procs : XP_BalanceAfter(i)

SpecAttempt == Init /\ [][NextAttempt]_vars


\* ================================================================ properties
IsPaidTool(name) == name \in DOMAIN TOOLS /\ TOOLS[name].tier \in {"premium", "ultra"}
IsFreeTool(name) == name \in DOMAIN TOOLS /\ TOOLS[name].tier = "free"
CallNames(v) == {v.calls[k][1] : k \in 1..Len(v.calls)}
CallIndex(v, what) == {k \in 1..Len(v.calls) : v.calls[k][1] = what}
HandlerRan(v) == "executeTool" \in CallNames(v)
PaymentSucceeded(v) == IsSome(v.result) /\ Get(v.result).success
PaymentSteps == {"generatePaymentHeader", "verifyPayment", "settlePayment"}
Latest(i) == \A j \in Procs : j > i => inv[j].pc = "idle"
PriceOf(name) == UsdceAmount(TOOLS[name].priceInCRO)
EnvelopeError(v) == Get(Get(v.envelope).error)
ReportsInsufficient(v) ==
  /\ v.pc = "done"
  /\ Get(v.envelope).isError
  /\ EnvelopeError(v).kind = InsufficientMsg(<<>>, <<>>).kind

\* C1: the execution handler of a premium or ultra tool starts only after the
\* payment attempt of the same invocation returned success (and after its
\* settlePayment call); an invocation whose payment failed ends with an error
\* envelope and its handler never ran.
C1_HandlerOnlyAfterPaidSuccess ==
  \A i \in Procs :
    LET v == inv[i]
    IN  IsPaidTool(v.name) =>
          /\ HandlerRan(v) =>
               /\ PaymentSucceeded(v)
               /\ \A h \in CallIndex(v, "executeTool") :
                    \E s \in CallIndex(v, "settlePayment") : s < h
          /\ (v.pc = "done" /\ ~PaymentSucceeded(v)) =>
               (~HandlerRan(v) /\ Get(v.envelope).isError)

\* C1 witness: a paid invocation whose verification was refused has returned
C1_Witness ==
  \E i \in Procs :
    /\ IsPaidTool(inv[i].name) /\ inv[i].pc = "done"
    /\ IsSome(inv[i].verify) /\ ~Get(inv[i].verify).isValid
    /\ IsSome(inv[i].result) /\ ~Get(inv[i].result).success
    /\ ~HandlerRan(inv[i])

\* C2 (as claimed): when the payment attempt of a paid invocation ended in
\* success, the handler was invoked and the envelope it returned carries that
\* attempt's outcome as the receipt.
C2_SuccessRunsHandlerWithReceipt ==
  \A i \in Procs :
    LET v == inv[i]
    IN  (v.pc = "done" /\ IsPaidTool(v.name) /\ PaymentSucceeded(v)) =>
          /\ HandlerRan(v)
          /\ ~Get(v.envelope).isError => Get(v.envelope).paymentDetails = Some(v.result)

\* C3 (as claimed): when settlePayment returned no txHash, executePayment
\* reports success exactly when balanceAfter <= balanceBefore - required amount.
C3_NoReferenceSuccessIffFullDecrease ==
  \A i \in Procs :
    LET v == inv[i]
    IN  (IsSome(v.settle) /\ ~IsSome(Get(v.settle).txHash) /\ IsSome(v.result)) =>
          (Get(v.result).success <=>
             /\ IsSome(v.balanceAfter)
             /\ Get(v.balanceAfter) <= Get(v.balanceBefore) - v.paymentAmountWei)

\* the attempt ended for want of funds: the gate's or executePayment's
\* insufficient-balance error, or a settlement that was refused
FundsFailure(v) ==
  \/ ReportsInsufficient(v)
  \/ /\ IsSome(v.result) /\ ~Get(v.result).success
     /\ \/ Includes(Get(Get(v.result).error), "Insufficient USDCe")
        \/ Get(Get(v.result).error) \in {SettlementFailedMsg, SettleErrorMsg}
\* the facilitator refused a settlement only when the funds were short
RefusedOnlyWhenShort(v) ==
  (IsSome(v.settle) /\ ~IsSome(Get(v.settle).txHash) /\ ~v.debited /\ IsSome(v.balanceAfter))
     => Get(v.balanceAfter) < v.paymentAmountWei
\* nothing went wrong for the invocation except, possibly, a shortage of funds
NoOtherFault(v) ==
  /\ v.usdceBalance # ZeroString
  /\ PaymentSucceeded(v) \/ FundsFailure(v)
  /\ RefusedOnlyWhenShort(v)
AttemptIdsInLog == {Get(log[k].id) : k \in {n \in 1..Len(log) : IsSome(log[n].id)}}

\* C4 (as claimed): the same paid tool invoked twice concurrently by a payer
\* whose balance covers one charge only (and no fault other than the shortage):
\* exactly one payment succeeds, the other ends in InsufficientFunds or
\* SettlementFailed with its handler not run, and the log holds two attempt ids.
C4_ConcurrentPairOneCharge ==
  \A i, j \in Procs :
    LET v == inv[i]
        w == inv[j]
        total == usdce[SignerAddress] + usdce[recipientAddress]
    IN  ( /\ i < j /\ v.pc = "done" /\ w.pc = "done"
          /\ v.overlapped /\ w.overlapped
          /\ v.name = w.name /\ IsPaidTool(v.name)
          /\ PriceOf(v.name) <= total /\ total < 2 * PriceOf(v.name)
          /\ NoOtherFault(v) /\ NoOtherFault(w) ) =>
          /\ PaymentSucceeded(v) # PaymentSucceeded(w)
          /\ ~PaymentSucceeded(v) => (FundsFailure(v) /\ ~HandlerRan(v))
          /\ ~PaymentSucceeded(w) => (FundsFailure(w) /\ ~HandlerRan(w))
          /\ Cardinality(AttemptIdsInLog) = 2

\* C5: a paid tool invoked while the payer's balance is below the price ends in
\* the insufficient-funds error whose `have` is the balance the read returned
\* and whose `need` is the catalog price; no header, verification, settlement
\* or handler call was made. (Stated of the latest invocation, during which the
\* balance did not change.)
C5_InsufficientFundsReported ==
  \A i \in Procs :
    LET v == inv[i]
    IN  ( /\ v.pc = "done" /\ IsPaidTool(v.name) /\ Latest(i) /\ ~v.debited
          /\ usdce[SignerAddress] < PriceOf(v.name) ) =>
          /\ ReportsInsufficient(v)
          /\ EnvelopeError(v).have = v.usdceBalance
          /\ parseFloat(v.usdceBalance) \in {usdce[SignerAddress], 0}
          /\ EnvelopeError(v).need = Some(TOOLS[v.name].priceInCRO)
          /\ CallNames(v) \cap (PaymentSteps \cup {"executeTool"}) = {}

\* C5 witness: 0.25 USDCe in the wallet, a tool that costs more, the read worked
C5_Witness ==
  \E i \in Procs :
    /\ inv[i].pc = "done" /\ IsPaidTool(inv[i].name) /\ Latest(i)
    /\ usdce[SignerAddress] > 0
    /\ usdce[SignerAddress] < PriceOf(inv[i].name)
    /\ inv[i].usdceBalance = formatUnits(usdce[SignerAddress])
    /\ ReportsInsufficient(inv[i])


\* C6: an invocation of a tool id that is not in the catalog has returned at
\* once with the tool-not-found error envelope; it issued no external call (no
\* balance query, payment step or handler), created no attempt and wrote no log
\* line.
C6_UnknownToolNotFound ==
  \A i \in Procs :
    LET v == inv[i]
    IN  (v.pc # "idle" /\ v.name \notin DOMAIN TOOLS) =>
          /\ v.pc = "done"
          /\ Get(v.envelope).isError
          /\ Get(v.envelope).error = Some(ToolNotFoundMsg(v.name))
          /\ Get(v.envelope).suggestion = Some("Check the tool name and try again.")
          /\ v.calls = <<>>
          /\ v.paymentId = None
          /\ v.logged = 0

\* C6 witness: vvs_swap, which the catalog does not hold, was requested
C6_Witness ==
  \E i \in Procs :
    /\ inv[i].pc = "done" /\ inv[i].name = "vvs_swap"
    /\ Get(inv[i].envelope).isError

PrePaymentReadFailed(v) ==
  /\ IsSome(v.result) /\ Get(v.result).error = Some(RpcErrorMsg)
  /\ v.balanceBefore = None

\* C8 (as claimed): whichever balance read of a paid invocation failed (the
\* gate's or executePayment's own), the caller is told that the balance is
\* insufficient, and header generation, verification, settlement and the
\* handler are not reached.
C8_EveryFailedReadIsInsufficient ==
  \A i \in Procs :
    LET v == inv[i]
    IN  ( /\ IsPaidTool(v.name) /\ v.pc = "done"
          /\ v.usdceBalance = ZeroString \/ PrePaymentReadFailed(v) ) =>
          /\ ReportsInsufficient(v)
          /\ CallNames(v) \cap (PaymentSteps \cup {"executeTool"}) = {}

\* C8 (amended): a failed balance read is never taken for a sufficient balance.
\* When the gate's read failed (RPC error or missing signer, both answered with
\* '0'), the paid invocation is reported as insufficient USDCe with have = '0'
\* and creates no payment attempt. When the read that executePayment makes
\* before the payment failed, the caller gets the generic 'Payment failed'
\* error, which says nothing about the balance. In both cases header
\* generation, verification, settlement and the handler are not reached, and
\* any invocation that reached them had read a balance that covers the price.
C8_FailedReadIsInsufficient ==
  \A i \in Procs :
    LET v == inv[i]
    IN  IsPaidTool(v.name) =>
          /\ (v.usdceBalance = ZeroString /\ v.pc # "hp_cro") =>
               /\ ReportsInsufficient(v)
               /\ EnvelopeError(v).have = ZeroString
               /\ Get(v.envelope).suggestion = Some("Fund your wallet with USDCe and retry.")
               /\ v.paymentId = None
               /\ CallNames(v) \cap (PaymentSteps \cup {"executeTool"}) = {}
          /\ PrePaymentReadFailed(v) =>
               /\ v.pc = "done" /\ Get(v.envelope).isError
               /\ Get(v.envelope).error = Some(PaymentFailedMsg)
               /\ ~v.debited
               /\ CallNames(v) \cap (PaymentSteps \cup {"executeTool"}) = {}
          /\ CallNames(v) \cap PaymentSteps # {} =>
               /\ v.usdceBalance # ZeroString
               /\ IsSome(v.balanceBefore)
               /\ Get(v.balanceBefore) >= v.paymentAmountWei

\* C8 witness: the wallet could pay, the read failed, the call was refused
C8_Witness ==
  \E i \in Procs :
    /\ IsPaidTool(inv[i].name) /\ inv[i].pc = "done"
    /\ privateKey # ""
    /\ inv[i].usdceBalance = ZeroString
    /\ usdce[SignerAddress] >= PriceOf(inv[i].name)
    /\ ReportsInsufficient(inv[i])

\* C9 (as claimed): the account whose balance is read and which is debited is
\* the principal address supplied with the request.
C9_ChargedAccountIsPrincipal ==
  \A i \in Procs :
    LET v == inv[i]
    IN  (IsPaidTool(v.name) /\ IsSome(v.args.address)) =>
          /\ \A k \in CallIndex(v, "balanceOf") : v.calls[k][2] = v.userAddress
          /\ v.debited => v.walletAddress = v.userAddress

\* C9 (amended): the account whose balance is read and which is debited is the
\* server's own signer wallet (the address of PRIVATE_KEY), whatever address the
\* request supplies; the supplied address is never charged.
C9_ChargedAccountIsSigner ==
  /\ usdce[OtherAddress] = 0
  /\ \A i \in Procs :
       LET v == inv[i]
       IN  /\ \A k \in CallIndex(v, "balanceOf") : v.calls[k][2] = SignerAddress
           /\ v.debited => v.walletAddress = SignerAddress

\* C9 witness: a request that names another address was settled
C9_Witness ==
  \E i \in Procs :
    /\ inv[i].args.address = Some(OtherAddress)
    /\ inv[i].userAddress = OtherAddress
    /\ inv[i].debited
    /\ usdce[recipientAddress] > 0

\* C10 (as claimed): any two payment attempts have distinct attempt ids.
C10_AttemptIdsDistinct ==
  \A i, j \in Procs :
    (i # j /\ IsSome(inv[i].paymentId) /\ IsSome(inv[j].paymentId)) =>
       inv[i].paymentId # inv[j].paymentId

\* one step of the invocation i after its request was received
StepOf(i) ==
  \/ HP_UsdceBalance(i) \/ HP_CroBalance(i)
  \/ XP_BalanceBefore(i) \/ XP_Header(i) \/ XP_Verify(i)
  \/ XP_Settle(i) \/ XP_BalanceAfter(i)
  \/ Exec(i)
  \/ ST_Capabilities(i) \/ ST_UsdceBalance(i) \/ ST_CroBalance(i)

RECURSIVE ChargedUpTo(_)
\* the sum of the amounts of the invocations 1..n whose settlement moved funds
ChargedUpTo(n) ==
  IF n = 0 THEN 0
  ELSE ChargedUpTo(n - 1) + (IF inv[n].debited THEN inv[n].paymentAmountWei ELSE 0)

\* C11: there is no locking and no de-duplication. An invocation in flight can
\* always take its next step, whatever the other invocations are doing; every
\* settled attempt is a charge of its own (the payee holds the sum of all
\* settled amounts, one transfer each); and two overlapping invocations of the
\* same paid tool that both were answered with a transaction reference each
\* made their own verifyPayment and settlePayment call and were both charged.
C11_NoLockingNoDeduplication ==
  /\ \A i \in Procs : InFlight(inv[i]) => ENABLED StepOf(i)
  /\ usdce[recipientAddress] = ChargedUpTo(MaxInv)
  /\ nTx = Cardinality({i \in Procs : inv[i].debited})
  /\ \A i, j \in Procs :
       LET v == inv[i]
           w == inv[j]
       IN  ( /\ i # j /\ v.overlapped /\ w.overlapped
             /\ v.name = w.name /\ IsPaidTool(v.name)
             /\ IsSome(v.settle) /\ IsSome(Get(v.settle).txHash)
             /\ IsSome(w.settle) /\ IsSome(Get(w.settle).txHash) ) =>
             /\ v.debited /\ w.debited
             /\ Get(v.settle).txHash # Get(w.settle).txHash
             /\ Cardinality(CallIndex(v, "verifyPayment")) = 1
             /\ Cardinality(CallIndex(v, "settlePayment")) = 1
             /\ usdce[recipientAddress] >= 2 * PriceOf(v.name)

\* C11 witness: get_historical_price_data was invoked twice, the two
\* invocations overlapped, and both were charged in full
C11_Witness ==
  /\ inv[1].name = "get_historical_price_data" /\ inv[2].name = inv[1].name
  /\ inv[1].overlapped /\ inv[2].overlapped
  /\ inv[1].debited /\ inv[2].debited
  /\ inv[1].pc = "done" /\ inv[2].pc = "done"
  /\ usdce[recipientAddress] = 2 * PriceOf("get_historical_price_data")

\* the invocation is inside executePayment, between two of its awaits
InExecutePayment(v) ==
  v.pc \in {"xp_balBefore", "xp_header", "xp_verify", "xp_settle", "xp_balAfter"}

\* C12: every call of executePayment ends with one outcome and never throws:
\* an attempt that is no longer inside the call has a result, which is either
\* a success (verified, settled, no error) or a failure that carries a reason,
\* whichever step failed; while the call is running there is no result yet.
\* Nothing is retried: generatePaymentHeader, verifyPayment and settlePayment
\* are each called at most once per attempt, balanceOf at most twice (before
\* and after the settlement), and a failed attempt moved funds at most once.
C12_OneOutcomeNeverThrowsNoRetry ==
  \A i \in Procs :
    LET v == inv[i]
    IN  IsSome(v.paymentId) =>
          /\ InExecutePayment(v) <=> v.result = None
          /\ IsSome(v.result) =>
               LET r == Get(v.result)
               IN  \/ r.success /\ r.verified /\ r.settled /\ r.error = None
                                /\ IsSome(r.txHash)
                   \/ ~r.success /\ ~r.verified /\ ~r.settled
                                 /\ IsSome(r.error) /\ Get(r.error) # NoMsg
                                 /\ r.txHash = None
          /\ \A step \in PaymentSteps : Cardinality(CallIndex(v, step)) <= 1
          /\ Cardinality(CallIndex(v, "balanceOf")) <= 2
          /\ Len(v.calls) <= 5

\* C12 witness: the balance read after a settlement that moved funds failed,
\* and the attempt ended with a failure outcome
C12_Witness ==
  \E i \in Procs :
    /\ inv[i].pc = "done" /\ inv[i].debited
    /\ IsSome(inv[i].result) /\ ~Get(inv[i].result).success
    /\ Get(inv[i].result).error = Some(RpcErrorMsg)

\* C13 (as claimed): when verifyPayment answered that the payment is invalid
\* and gave a reason, the error of the envelope returned to the caller contains
\* that reason string.
C13_VerifierReasonInEnvelope ==
  \A i \in Procs :
    LET v == inv[i]
    IN  ( /\ v.pc = "done" /\ IsPaidTool(v.name)
          /\ IsSome(v.verify) /\ ~Get(v.verify).isValid
          /\ Get(v.verify).invalidReason # <<>> ) =>
          /\ Get(v.envelope).isError
          /\ \A reason \in Range(Get(v.verify).invalidReason) :
               Includes(EnvelopeError(v), reason)

\* the failure class of a paid invocation that returned an error envelope
FailureClass(v) ==
  IF ReportsInsufficient(v) THEN "InsufficientFunds"
  ELSE IF IsSome(v.verify) /\ ~Get(v.verify).isValid THEN "VerificationFailed"
  ELSE IF /\ IsSome(v.settle) /\ IsSome(v.result) /\ ~Get(v.result).success
          /\ Get(Get(v.result).error) \in {SettlementFailedMsg, SettleErrorMsg}
       THEN "SettlementFailed"
  ELSE "other"

\* C14 (as claimed): two failed paid invocations whose failures are of different
\* classes among insufficient funds, verification failure and settlement
\* failure carry different remediation hints in their error envelopes.
C14_HintPerFailureClass ==
  \A i, j \in Procs :
    LET v == inv[i]
        w == inv[j]
    IN  ( /\ v.pc = "done" /\ w.pc = "done"
          /\ IsPaidTool(v.name) /\ IsPaidTool(w.name)
          /\ Get(v.envelope).isError /\ Get(w.envelope).isError
          /\ FailureClass(v) # "other" /\ FailureClass(w) # "other"
          /\ FailureClass(v) # FailureClass(w) ) =>
          Get(v.envelope).suggestion # Get(w.envelope).suggestion

\* what an envelope tells apart from the name of the tool
EnvelopeContent(v) == [Get(v.envelope) EXCEPT !.tool = None]

\* C15 (as claimed): an error envelope returned after a successful payment
\* (charged, but the operation did not deliver) differs from the error envelope
\* of an invocation whose payment failed and that was not charged.
C15_ChargedErrorDistinguishable ==
  \A i, j \in Procs :
    LET v == inv[i]
        w == inv[j]
    IN  ( /\ v.pc = "done" /\ w.pc = "done"
          /\ IsPaidTool(v.name) /\ IsPaidTool(w.name)
          /\ Get(v.envelope).isError /\ Get(w.envelope).isError
          /\ PaymentSucceeded(v) /\ v.debited
          /\ IsSome(w.result) /\ ~PaymentSucceeded(w) /\ ~w.debited ) =>
          EnvelopeContent(v) # EnvelopeContent(w)

\* C16: every invocation that has ended returned one envelope, and none has an
\* envelope before it ended. An exception of the tool lookup, of the payment
\* gate or of the execution handler became an error envelope that names the
\* tool and carries the message and a suggestion. The server keeps accepting
\* requests afterwards.
C16_OneEnvelopeNoEscape ==
  /\ \A i \in Procs :
       LET v == inv[i]
       IN  /\ v.pc = "done" <=> IsSome(v.envelope)
           /\ (IsSome(v.envelope) /\ Get(v.envelope).isError) =>
                /\ Get(v.envelope).tool = Some(v.name)
                /\ IsSome(Get(v.envelope).error)
                /\ Get(Get(v.envelope).error) # NoMsg
                /\ Get(v.envelope).suggestion
                     = Some(getErrorSuggestion(Get(Get(v.envelope).error)))
           /\ (IsSome(v.envelope) /\ ~Get(v.envelope).isError) =>
                Get(v.envelope).success = Some(TRUE)
  /\ ( /\ \A j \in Procs : ~InFlight(inv[j])
       /\ \E j \in Procs : inv[j].pc = "idle" ) =>
       ENABLED (\E j \in Procs : Receive(j))

\* C16 witness: the handler of a free tool threw, the lookup failed for another
\* request, and both returned error envelopes
C16_Witness ==
  \E i, j \in Procs :
    /\ inv[i].pc = "done" /\ inv[j].pc = "done"
    /\ HandlerRan(inv[i]) /\ Get(inv[i].envelope).isError
    /\ Get(inv[i].envelope).error = Some(HandlerFailedMsg)
    /\ inv[j].name \notin DOMAIN TOOLS /\ Get(inv[j].envelope).isError

\* inputSchema.required of each catalog tool
RequiredFields(name) ==
  CASE name \in {"get_cronos_balance", "analyze_wallet_portfolio"} -> {"address"}
    [] name = "get_token_price" -> {"symbol"}
    [] name = "check_transaction_status" -> {"txHash"}
    [] name = "get_historical_price_data" -> {"symbol", "days"}
    [] name \in {"optimize_swap_route", "execute_token_swap"} ->
         {"tokenIn", "tokenOut", "amountIn"}
    [] name = "auto_compound_rewards" -> {"protocol", "poolAddress"}
    [] OTHER -> {}

\* the fields that the arguments of a request hold
SuppliedFields(args) == {f \in DOMAIN args : IsSome(args[f])}

\* C17 (as claimed): a paid-tool invocation whose arguments lack a field that
\* the input schema requires has returned an error envelope at once, without a
\* balance read, header generation, verification or settlement, and was not
\* charged.
C17_MissingFieldRejectedBeforePayment ==
  \A i \in Procs :
    LET v == inv[i]
    IN  ( /\ v.pc # "idle" /\ IsPaidTool(v.name)
          /\ ~(RequiredFields(v.name) \subseteq SuppliedFields(v.args)) ) =>
          /\ v.pc = "done" /\ Get(v.envelope).isError
          /\ v.calls = <<>>
          /\ v.paymentId = None
          /\ ~v.debited

\* C18: an invocation of check_x402_status never creates a payment attempt,
\* whatever the balances are: it has no payment id and no payment result, made
\* no generatePaymentHeader, verifyPayment or settlePayment call, moved no
\* funds, and no attempt entry of the audit log names it. It is answered by the
\* status branch, not by executeTool, with a success envelope that reports the
\* balances read.
C18_StatusCreatesNoAttempt ==
  /\ \A id \in AttemptIdsInLog : id[1] # "check_x402_status"
  /\ \A i \in Procs :
       LET v == inv[i]
       IN  v.name = "check_x402_status" =>
             /\ v.paymentId = None /\ v.result = None /\ v.paymentResult = None
             /\ v.header = None /\ v.verify = None /\ v.settle = None
             /\ CallNames(v) \cap (PaymentSteps \cup {"executeTool"}) = {}
             /\ ~v.debited
             /\ v.pc = "done" =>
                  /\ ~Get(v.envelope).isError
                  /\ Get(v.envelope).balances
                       = Some([cro |-> v.croBalance, usdce |-> v.usdceBalance])

\* C18 witness: the status was asked for while the wallet could pay for a tool,
\* and the envelope reports that balance
C18_Witness ==
  \E i \in Procs :
    /\ inv[i].name = "check_x402_status" /\ inv[i].pc = "done"
    /\ usdce[SignerAddress] >= PriceOf("analyze_wallet_portfolio")
    /\ inv[i].usdceBalance = formatUnits(usdce[SignerAddress])
    /\ Get(inv[i].envelope).balances
         = Some([cro |-> inv[i].croBalance, usdce |-> inv[i].usdceBalance])

\* C19 (as claimed): a server whose PRIVATE_KEY is absent accepts no request,
\* so no invocation ever ends with a per-call error caused by the missing key.
C19_MissingKeyFatalAtStartup ==
  privateKey = "" =>
    \A i \in Procs :
      /\ inv[i].pc = "idle"
      /\ inv[i].envelope = None

\* C20 (as claimed): an invocation that awaits verifyPayment or settlePayment
\* always ends, even if the facilitator never answers: the attempt gets an
\* outcome and the invocation returns an envelope.
C20_PaymentCallsTimeOut ==
  \A i \in Procs :
    (inv[i].pc \in {"xp_verify", "xp_settle"})
      ~> (inv[i].pc = "done" /\ IsSome(inv[i].result) /\ IsSome(inv[i].envelope))

\* the attempt passed the balance check of executePayment
Authorized(v) == IsSome(v.header)

\* C21 (as claimed): an attempt that has passed its balance check is never cut
\* short by the caller: whenever it is no longer running it has its terminal
\* outcome, and if its verification was valid, settlePayment was called.
C21_NoCancellationOnceAuthorized ==
  \A i \in Procs :
    LET v == inv[i]
    IN  (Authorized(v) /\ ~InFlight(v)) =>
          /\ IsSome(v.result)
          /\ (IsSome(v.verify) /\ Get(v.verify).isValid) =>
               "settlePayment" \in CallNames(v)

\* the attempt was counted as paid by the balance comparison alone
SuccessByBalanceDelta(v) ==
  /\ IsSome(v.settle) /\ ~IsSome(Get(v.settle).txHash)
  /\ PaymentSucceeded(v)

\* C22 (as claimed): a success that rests on the balance comparison, the
\* settlement having returned no transaction reference, is not reported as a
\* verified and settled payment with a transaction reference.
C22_HeuristicSuccessFlaggedUnverified ==
  \A i \in Procs :
    LET v == inv[i]
    IN  SuccessByBalanceDelta(v) =>
          \/ ~Get(v.result).verified
          \/ ~Get(v.result).settled
          \/ Get(v.result).txHash = None

\* the log entries that state the end of an attempt
TerminalTags == {"PAYMENT COMPLETED", "PAYMENT FAILED"}

\* the positions of the log that hold a terminal entry with the id of v's attempt
TerminalEntries(v) ==
  {k \in 1..Len(log) : log[k].tag \in TerminalTags /\ log[k].id = v.paymentId}

\* C23 (as claimed): every paid invocation of a catalog tool that has returned
\* has an attempt id, and the audit log holds an entry with that id that states
\* its terminal outcome; this includes invocations refused for lack of funds.
C23_EveryPaidInvocationAudited ==
  \A i \in Procs :
    LET v == inv[i]
    IN  (v.pc = "done" /\ IsPaidTool(v.name)) =>
          /\ IsSome(v.paymentId)
          /\ TerminalEntries(v) # {}

\* the log entries that state a successful end of a payment
CompletionTags == {"PAYMENT COMPLETED", "Payment processed (check wallet history)"}

\* the positions of the log that hold a completion entry of v's attempt
CompletionEntries(v) ==
  {k \in 1..Len(log) : log[k].tag \in CompletionTags /\ log[k].id = v.paymentId}

\* C24 (as claimed): for every paid invocation whose payment succeeded, by
\* either success branch, the audit log holds exactly one completion entry of
\* that attempt, and it is there once the result has been handed back.
C24_OneCompletionEntryPerSuccess ==
  \A i \in Procs :
    LET v == inv[i]
    IN  (IsPaidTool(v.name) /\ PaymentSucceeded(v)) =>
          Cardinality(CompletionEntries(v)) = 1

\* C25: the audit log is append-only: across payment attempts and service
\* restarts every step leaves the earlier content of the log as a prefix of
\* the later content; no entry is rewritten, truncated or deleted.
C25_LogAppendOnly ==
  [][/\ Len(log') >= Len(log)
     /\ SubSeq(log', 1, Len(log)) = log]_vars

\* a restart banner follows the entries of a completed attempt and is itself
\* followed by the entries of a later attempt
C25_Witness ==
  \E k \in 2..Len(log) :
    /\ log[k] = InitBanner
    /\ \E j \in 1..(k - 1) : log[j].tag = "PAYMENT COMPLETED"
    /\ \E j \in (k + 1)..Len(log) : log[j].tag = "Starting payment"

\* a returned paid invocation whose payment failed before the settlement step:
\* refused for funds, header or verification call failed, or verdict invalid
FailedBeforeSettlement(v) ==
  /\ IsPaidTool(v.name)
  /\ v.pc = "done"
  /\ ~PaymentSucceeded(v)
  /\ ~IsSome(v.verify) \/ ~Get(v.verify).isValid

\* C26: settlement is the only step that moves funds: every step that changes
\* a balance is the answer to a settlePayment call that an attempt issued, and
\* an attempt that fails before the settlement step has never called
\* settlePayment, is not debited, and its failing step leaves the balances as
\* they were.
C26_OnlySettlementMovesFunds ==
  [][/\ usdce' # usdce =>
          \E i \in Procs : /\ inv[i].pc = "xp_settle"
                           /\ "settlePayment" \in CallNames(inv[i])
                           /\ inv'[i] # inv[i]
     /\ \A i \in Procs :
          FailedBeforeSettlement(inv'[i]) =>
            /\ "settlePayment" \notin CallNames(inv'[i])
            /\ ~inv'[i].debited
            /\ inv'[i] # inv[i] => usdce' = usdce]_vars

\* an attempt with enough funds was refused by the verifier and the balance it
\* read at its start is still the payer's balance
C26_Witness ==
  \E i \in Procs :
    LET v == inv[i]
    IN  /\ FailedBeforeSettlement(v)
        /\ IsSome(v.verify)
        /\ IsSome(v.balanceBefore)
        /\ balanceOf(v.walletAddress) = Get(v.balanceBefore)
        /\ Get(v.balanceBefore) >= v.paymentAmountWei

\* the network calls of executePayment, in the order of its phases
PhaseOrder ==
  <<"balanceOf", "generatePaymentHeader", "verifyPayment", "settlePayment", "balanceOf">>

\* the calls handlePayment issues before it enters executePayment
GateCalls == <<"balanceOf", "getBalance">>

\* the names of the calls v issued since it entered executePayment
PhaseCalls(v) ==
  LET names == [k \in 1..Len(v.calls) |-> v.calls[k][1]]
      InPayment(name) == name # "executeTool"
      gate == IF Len(names) >= 2 /\ SubSeq(names, 1, 2) = GateCalls THEN 2 ELSE 0
  IN  SelectSeq(SubSeq(names, gate + 1, Len(names)), InPayment)

\* the phase v waits in, as the number of phase calls issued so far
WaitingPhase(pc) ==
  CASE pc = "xp_balBefore" -> 1
    [] pc = "xp_header" -> 2
    [] pc = "xp_verify" -> 3
    [] pc = "xp_settle" -> 4
    [] pc = "xp_balAfter" -> 5
    [] OTHER -> 0

\* C27: within one attempt the phases run strictly forward in the order balance
\* check, header generation, verification, settlement, post-settlement read:
\* the calls issued are an initial part of that order (so none is repeated and
\* verifyPayment and settlePayment are issued at most once), a step issues at
\* most the next call, and a call is issued only when the result of the
\* previous one is known.
C27_PhasesStrictlyForward ==
  [][\A i \in Procs :
       LET v == inv'[i]
           n == Len(PhaseCalls(v))
       IN  IsSome(v.paymentId) =>
             /\ n <= Len(PhaseOrder)
             /\ PhaseCalls(v) = SubSeq(PhaseOrder, 1, n)
             /\ Len(PhaseCalls(inv[i])) <= n
             /\ n <= Len(PhaseCalls(inv[i])) + 1
             /\ WaitingPhase(v.pc) # 0 => WaitingPhase(v.pc) = n
             /\ n >= 2 => IsSome(v.balanceBefore)
             /\ n >= 3 => IsSome(v.requirements)
             /\ n >= 4 => IsSome(v.verify) /\ Get(v.verify).isValid
             /\ n >= 5 => IsSome(v.settle)]_vars

\* an attempt went through all five phases and succeeded
C27_Witness ==
  \E i \in Procs :
    /\ inv[i].pc = "done"
    /\ PaymentSucceeded(inv[i])
    /\ PhaseCalls(inv[i]) = PhaseOrder

\* the entry that closes the log block of the phase completed just before the
\* call that an attempt at pc waits on was issued
LastPhaseEntry(pc) ==
  CASE pc = "xp_balBefore" -> {"Asset"}
    [] pc = "xp_header" -> {"Generating payment header"}
    [] pc = "xp_verify" -> {"Verifying payment"}
    [] pc = "xp_settle" -> {"Settling payment on-chain"}
    [] pc = "xp_balAfter" -> {"Timestamp", "Error"}
    [] OTHER -> {}

Milestone(tag) ==
  CASE tag = "Starting payment" -> 1
    [] tag = "BALANCE BEFORE" -> 2
    [] tag = "Header generated" -> 3
    [] tag = "Verify Response" -> 4
    [] tag = "SETTLE RESPONSE" -> 5
    [] tag \in CompletionTags -> 6
    [] tag = "PAYMENT FAILED" -> 7
    [] OTHER -> 0

\* the positions of the log where the entries of an attempt begin
Starts == {k \in 1..Len(log) : log[k].tag = "Starting payment"}

\* the last position of the block of entries that begins at k: the block ends
\* where another attempt, a restart banner or a status line begins
BlockEnd(k) ==
  LET later == {j \in (k + 1)..Len(log) :
                  log[j].tag \in {"Starting payment", InitBanner.tag, "Failed to get supported"}}
  IN  IF later = {} THEN Len(log)
      ELSE (CHOOSE j \in later : \A l \in later : j <= l) - 1

\* the milestones of the block that begins at k, in the order they were written
BlockMilestones(k) ==
  LET all == [j \in 1..(BlockEnd(k) - k + 1) |-> Milestone(log[k + j - 1].tag)]
      IsMilestone(x) == x # 0
  IN  SelectSeq(all, IsMilestone)

\* the first n milestones of m are the first n of the fixed order
InFixedOrder(m, n) == \A j \in 1..n : m[j] = j

\* the invocations that entered executePayment
Attempts == {i \in Procs : IsSome(inv[i].paymentId)}

NoAttemptTags == {Separator.tag, InitBanner.tag, "Failed to get supported"}

\* C30 (as claimed): when attempts overlap, every entry an attempt wrote carries
\* the id of that attempt, so that the entries of each attempt (amount, payer,
\* payee, outcome) can be picked out of the interleaved log.
C30_EntriesCarryAttemptId ==
  (\E i \in Procs : inv[i].overlapped) =>
    \A k \in 1..Len(log) :
      log[k].tag \notin NoAttemptTags => IsSome(log[k].id)

\* C31: the authorization handed to verification and settlement is bound to
\* one payee, one amount and one expiry: the header's recipient is the
\* requirements' payTo and the configured payee, the header's value is the
\* requirements' maxAmountRequired, the tool's price in USDCe units and the
\* amount the balance was compared against, and the expiry is one hour after a
\* time (in seconds) between the attempt's start and now.
C31_AuthorizationBound ==
  \A i \in Procs :
    LET v == inv[i]
    IN  IsSome(v.header) =>
          LET h == Get(v.header)
              started == Get(v.paymentId)[2]
          IN  /\ h.to = recipientAddress
              /\ h.value = v.paymentAmountWei
              /\ h.value = PriceOf(v.name)
              /\ Get(v.balanceBefore) >= h.value
              /\ h.validBefore \in {t \div 1000 + 3600 : t \in started..clock}
              /\ IsSome(v.requirements) =>
                    /\ Get(v.requirements).payTo = h.to
                    /\ Get(v.requirements).maxAmountRequired = h.value

\* an authorization built after the clock moved is waiting at settlement
C31_Witness ==
  \E i \in Procs :
    /\ inv[i].pc = "xp_settle"
    /\ IsSome(inv[i].header) /\ IsSome(inv[i].requirements)
    /\ Get(inv[i].paymentId)[2] > 0

\* the tools the README lists under Available Tools, with the tier it states
DocumentedTier(name) ==
  IF name \in {"get_cronos_balance", "get_gas_price", "get_token_price",
               "check_transaction_status", "check_x402_status"} THEN "free"
  ELSE IF name \in {"analyze_wallet_portfolio", "get_historical_price_data",
                    "find_arbitrage_opportunities", "optimize_swap_route"} THEN "premium"
  ELSE "ultra"

DocumentedTools ==
  {"get_cronos_balance", "get_gas_price", "get_token_price",
   "check_transaction_status", "check_x402_status",
   "analyze_wallet_portfolio", "get_historical_price_data",
   "find_arbitrage_opportunities", "optimize_swap_route",
   "vvs_swap", "execute_token_swap", "auto_compound_rewards"}

\* C32 (as claimed): the catalog, the documented tools and the cases of the
\* dispatcher name the same tools: an invocation of a documented tool resolves
\* in the catalog with its documented tier and does not end with a not-found
\* error, and every catalog tool other than the status tool has a case.
C32_CatalogDocumentedDispatchAgree ==
  \A i \in Procs :
    LET v == inv[i]
    IN  (v.pc = "done" /\ v.name \in DocumentedTools) =>
          /\ IsSome(FindTool(v.name))
          /\ Get(FindTool(v.name)).tier = DocumentedTier(v.name)
          /\ v.name \in ExecCases \/ IsStatusTool(v.name)
          /\ ~(Get(v.envelope).isError /\ Includes(EnvelopeError(v), "not found"))

\* C33 (as claimed): under any interleaving of overlapping attempts an attempt
\* reports success only if its own settlement moved funds, and the number of
\* attempts reporting success never exceeds the number of settlements that
\* debited the payer.
C33_SuccessOnlyByOwnSettlement ==
  /\ \A i \in Procs : PaymentSucceeded(inv[i]) => inv[i].debited
  /\ Cardinality({i \in Procs : PaymentSucceeded(inv[i])}) <= nTx

\* C34 (as claimed): on every successful receipt the reported amountSpent is the
\* required amount of that attempt, which is the receipt's amount field, also
\* when other attempts change the payer's balance between the two balance reads.
C34_AmountSpentIsRequiredAmount ==
  \A i \in Procs :
    LET v == inv[i]
    IN  PaymentSucceeded(v) =>
          /\ Get(v.result).amount = formatUnits(v.paymentAmountWei)
          /\ Get(v.result).amountSpent = Some(Get(v.result).amount)

\* C35 (as claimed): in every result of executePayment the flags agree with the
\* phases completed: success implies verified, settled and a transaction
\* reference; failure implies an error reason and no transaction reference; and
\* verified = false is reported only when verification did not pass.
C35_FlagsAgreeWithPhases ==
  \A i \in Procs :
    LET v == inv[i]
    IN  IsSome(v.result) =>
          LET r == Get(v.result)
          IN  /\ r.success => r.verified /\ r.settled /\ IsSome(r.txHash)
              /\ ~r.success => IsSome(r.error) /\ ~IsSome(r.txHash)
              /\ ~r.verified => ~(IsSome(v.verify) /\ Get(v.verify).isValid)

\* the outcome the results of the phases determine: the settlement answered,
\* the balance was read again, and there was a txHash or the balance decreased
OutcomeOfPhases(v) ==
  /\ IsSome(v.settle)
  /\ IsSome(v.balanceAfter)
  /\ IsSome(Get(v.settle).txHash) \/ Get(v.balanceAfter) < Get(v.balanceBefore)

\* C36: a failure to append an audit entry does not change the course of the
\* attempt: whether or not its lines reached the file, an attempt issues the
\* calls of the phase order, ends with a result whose outcome is the one the
\* answers of the phases determine, and no envelope reports the failed append.
C36_AppendFailureChangesNothing ==
  \A i \in Procs :
    LET v == inv[i]
    IN  /\ IsSome(v.paymentId) =>
             /\ PhaseCalls(v) = SubSeq(PhaseOrder, 1, Len(PhaseCalls(v)))
             /\ WaitingPhase(v.pc) # 0 => WaitingPhase(v.pc) = Len(PhaseCalls(v))
             /\ v.pc = "done" => IsSome(v.result)
             /\ IsSome(v.result) => (Get(v.result).success <=> OutcomeOfPhases(v))
        /\ (v.pc = "done" /\ Get(v.envelope).isError) =>
             EnvelopeError(v) # LogWriteFailedMsg

\* an attempt none of whose lines reached the log went through all five phases
\* and succeeded
C36_Witness ==
  \E i \in Procs :
    /\ inv[i].pc = "done"
    /\ PaymentSucceeded(inv[i])
    /\ PhaseCalls(inv[i]) = PhaseOrder
    /\ inv[i].logged > 0
    /\ Starts = {}

\* ------------------------------------------------------- CronosAgent.chat
MaxResponses == 3

\* the content of a model response: its blocks in order
ResponseContents ==
  {<<"text">>, <<"tool_use">>, <<"text", "tool_use">>, <<"tool_use", "text">>,
   <<"tool_use", "tool_use">>, <<"text", "text">>}

HasToolUse(content) == \E k \in 1..Len(content) : content[k] = "tool_use"

\* the stop_reason the API gives: tool_use with a tool_use block, end_turn
\* without one, max_tokens when the response was cut at max_tokens: 4096
StopReasons(content) ==
  IF HasToolUse(content) THEN {"tool_use", "max_tokens"} ELSE {"end_turn", "max_tokens"}

\* the index of the first tool_use block, 0 when there is none
FirstToolUse(content) ==
  IF HasToolUse(content)
  THEN CHOOSE k \in 1..Len(content) :
         content[k] = "tool_use" /\ \A j \in 1..(k - 1) : content[j] # "tool_use"
  ELSE 0

Message(role, content) == [role |-> role, content |-> content]

\* chat after the for loop over the blocks: `if (response.stop_reason ===
\* 'end_turn')`, then the test of `while (continueLoop)`
AfterBlocks(a) ==
  LET r == Get(a.response)
      b == IF r.stop_reason = "end_turn"
           THEN [a EXCEPT !.continueLoop = FALSE,
                          !.conversationHistory =
                             IF Len(a.assistantContent) > 0
                             THEN Append(@, Message("assistant", a.assistantContent))
                             ELSE @]
           ELSE a
  IN  IF b.continueLoop THEN [b EXCEPT !.pc = "awaitModel"]
      ELSE [b EXCEPT !.pc = "returned"]

\* chat(userMessage) up to the first `await this.anthropic.messages.create`
Chat ==
  /\ agent.pc = "prompt"
  /\ agent' = [agent EXCEPT !.conversationHistory = Append(@, Message("user", <<"message">>)),
                            !.continueLoop = TRUE,
                            !.finalResponse = 0,
                            !.pc = "awaitModel"]
  /\ UNCHANGED <<inv, log, usdce, nTx, clock, privateKey, logWritable>>

\* messages.create answers: the blocks are read up to the first tool_use, for
\* which callMCPTool is issued; without one the loop test follows
ModelResponds ==
  /\ agent.pc = "awaitModel"
  /\ agent.nResponses < MaxResponses
  /\ \E content \in ResponseContents :
       \E stop_reason \in StopReasons(content) :
         LET k == FirstToolUse(content)
             read == IF k > 0 THEN SubSeq(content, 1, k) ELSE content
             texts == Cardinality({j \in 1..Len(read) : read[j] = "text"})
             a == [agent EXCEPT !.response = Some([content |-> content,
                                                   stop_reason |-> stop_reason]),
                                !.assistantContent = read,
                                !.finalResponse = @ + texts,
                                !.nResponses = @ + 1,
                                !.nToolResponses = @ + (IF k > 0 THEN 1 ELSE 0)]
         IN  agent' = IF k > 0
                      THEN [a EXCEPT !.pc = "awaitTool", !.nToolCalls = @ + 1]
                      ELSE AfterBlocks(a)
  /\ UNCHANGED <<inv, log, usdce, nTx, clock, privateKey, logWritable>>

\* messages.create rejects: chat rejects and prompt() reports the error
ModelThrows ==
  /\ agent.pc = "awaitModel"
  /\ agent' = [agent EXCEPT !.pc = "rejected"]
  /\ UNCHANGED <<inv, log, usdce, nTx, clock, privateKey, logWritable>>

\* callMCPTool resolves or rejects: the assistant content and the tool_result
\* are pushed, continueLoop = true, break
ToolReturns ==
  /\ agent.pc = "awaitTool"
  /\ \E ok \in BOOLEAN :
       agent' = AfterBlocks(
                  [agent EXCEPT !.conversationHistory =
                                   @ \o <<Message("assistant", agent.assistantContent),
                                          Message("user", IF ok THEN <<"tool_result">>
                                                          ELSE <<"tool_result", "is_error">>)>>,
                                !.continueLoop = TRUE])
  /\ UNCHANGED <<inv, log, usdce, nTx, clock, privateKey, logWritable>>

NextAgent ==
  \/ Chat
  \/ ModelResponds
  \/ ModelThrows
  \/ ToolReturns

SpecAgent == InitOverlap /\ [][NextAgent]_vars

\* C37 (as claimed): chat() returns after the first model response without a
\* tool_use block, whatever its stop_reason: the model is asked again only
\* after a response with a tool_use block, for which exactly one MCP tool call
\* was issued, and chat has returned only after a response without one.
C37_ChatReturnsWithoutToolUse ==
  /\ (agent.pc = "awaitModel" /\ agent.nResponses > 0) =>
        HasToolUse(Get(agent.response).content)
  /\ agent.nToolCalls = agent.nToolResponses
  /\ agent.pc = "returned" => ~HasToolUse(Get(agent.response).content)

====
